---- MODULE Spec2Model ----
(***************************************************************************)
(* getMusic.py: the FLAC integrity scan (run_flac_mode) and the MP3 decode *)
(* scan (run_mp3_mode).  One scan is modelled from its call to its return: *)
(* the main thread (discovery, tool check, pool construction, submission,  *)
(* collection with as_completed, the KeyboardInterrupt handler, the        *)
(* finally block, the report), the ThreadPoolExecutor's worker threads and *)
(* the external validator processes they wait for.                         *)
(***************************************************************************)
EXTENDS Integers, Sequences, FiniteSets, TLC

\* ---------------------------------------------------------------- bounds
MaxTargets == 2
MaxWorkers == 2
MaxFiles == 1
MaxSongs == 2

\* ------------------------------------------------------------ environment
Modes == {"flac", "mp3"}
Tools == {"flac", "ffmpeg"}

\* the report destination: a file that can be opened for writing, a file
\* that cannot (PermissionError) next to which files can be created, or an
\* existing directory
Dests == {"writable", "denied", "isdir"}

\* What the external tools do with a file.  good: both tools accept it.
\* bad: both exit non-zero with a diagnostic.  noisy: flac accepts it, ffmpeg
\* exits 0 but writes a diagnostic.  silentbad: both exit non-zero and write
\* nothing.  nospawn: the process cannot be started (Popen raises OSError).
\* dangling: the walk lists the name but the file cannot be opened or stat'ed
\* (a broken symlink): both tools exit non-zero with a diagnostic.
Kinds == {"good", "bad", "noisy", "silentbad", "nospawn", "dangling"}

VARIABLES
    mode,         \* which scan runs: run_flac_mode or run_mp3_mode
    prefer,       \* --prefer
    workers,      \* --workers
    only_errors,  \* --only-errors (MP3)
    verbose,      \* --verbose (MP3)
    path,         \* the tools shutil.which finds in PATH
    total,        \* number of discovered targets; the targets are 1..total
    kind,         \* kind[t]: how the tools react to target t
    pc,           \* position of the main thread
    pending,      \* what the finally block resumes: "none", "ret130", "raise"
    status,       \* the value returned (meaningful when pc = "returned")
    interrupts,   \* number of KeyboardInterrupts raised in the main thread
    caught,       \* the first interrupt was raised inside the try block
    ex,           \* the ThreadPoolExecutor has been constructed
    nthreads,     \* worker threads the pool has started
    submits,      \* submits[t]: how many times target t was submitted
    futures,      \* the variable `futures`: jobs in dict order
    job,          \* job[t]: "new", "queued", "running", "done", "cancelled"
    proc,         \* proc[t]: the live validator process of job t, or "none"
    result,       \* result[t]: what the job returned
    spawned,      \* <<t, tool>> for every validator process ever started
    taken,        \* jobs whose result the collector consumed, in order
    checked,      \* the counter `checked` (FLAC)
    errors,       \* the list `errors` (FLAC)
    oks, warns, errs, written,   \* the MP3 counters
    ffmpeg_path,  \* MP3: _find_ffmpeg's snapshot (TRUE: a path was found)
    reportOpened, \* the report file was opened for writing by this scan
    reportRows,   \* rows written to the report after the header
    runningAtInt, \* jobs whose validator process was alive at the interrupt
    ownExit,      \* jobs whose validator process exited by itself after it
    invoked,      \* invoked[t]: the validators started for job t, in order
    quiet,        \* --quiet
    have_tqdm,    \* HAVE_TQDM: the tqdm import succeeded
    tqdmUpdates,  \* calls of pbar.update(1)
    barWrites,    \* progress bars update_progress wrote to stdout
    dest,         \* the report destination: "writable", "denied", "isdir"
    reportAt,     \* where the report was opened: "none", "dest", "rotated", "inside"
    argv,         \* main's arguments: "direct" when the scan is called directly
    mainPc,       \* position of main / interactive_menu / the library writer
    exitCode,     \* what main returned (meaningful when mainPc = "exit")
    last_exit,    \* interactive_menu's last_exit
    announced,    \* "Music library written to ..." was printed
    songs,        \* audio files under the library root
    current_file, \* the library writer's counter current_file
    path0,        \* PATH as it was when the scan was called
    tpc,          \* testFLAC.py: where its main is
    tjob,         \* testFLAC.py: the state of each future
    tresult,      \* testFLAC.py: worker's tuple for each path
    ttaken,       \* testFLAC.py: the futures as_completed has yielded
    terrors,      \* testFLAC.py: errors
    tstatus,      \* testFLAC.py: the value main returned
    trows,        \* testFLAC.py: the rows it wrote to the CSV
    topened       \* testFLAC.py: the CSV was opened and its header written

vars == <<mode, prefer, workers, only_errors, verbose, path, total, kind,
          pc, pending, status, interrupts, caught, ex, nthreads, submits,
          futures, job, proc, result, spawned, taken, checked, errors,
          oks, warns, errs, written, ffmpeg_path, reportOpened, reportRows,
          runningAtInt, ownExit, invoked, quiet, have_tqdm, tqdmUpdates,
          barWrites, dest, reportAt, argv, mainPc, exitCode, last_exit,
          announced, songs, current_file, path0,
          tpc, tjob, tresult, ttaken, terrors, tstatus, trows, topened>>

params == <<mode, prefer, workers, only_errors, verbose, path, total, kind>>
counters == <<checked, errors, oks, warns, errs, written>>
report == <<reportOpened, reportRows>>
history == <<runningAtInt, ownExit>>
pool == <<ex, nthreads, submits, futures, job, proc, result, spawned>>
progress == <<tqdmUpdates, barWrites>>
twin == <<tpc, tjob, tresult, ttaken, terrors, tstatus, trows, topened>>
outer == <<have_tqdm, dest, argv, mainPc, exitCode, last_exit, announced,
           songs, current_file, path0, twin>>
extra == <<quiet, progress, reportAt, invoked, outer>>

Targets == 1..total

\* ------------------------------------------------------- pure functions
Max(a, b) == IF a >= b THEN a ELSE b

\* ThreadPoolExecutor(max_workers=max(1, workers))
PoolSize_zero(w) == IF w < 1 THEN 0 ELSE w
PoolSize_off(w) == IF w < 1 THEN 1 ELSE w + 1
PoolSize(w) == Max(1, w)

has_tool(name) == name \in path

\* The (returncode, stdout, stderr) run_proc returns for a tool and a file.
ProcResult(tool, k) ==
    CASE k = "good"      -> [code |-> 0, out |-> "", err |-> ""]
      [] k = "bad"       -> [code |-> 1, out |-> "", err |-> "corrupt"]
      [] k = "noisy"     -> IF tool = "ffmpeg"
                            THEN [code |-> 0, out |-> "", err |-> "corrected"]
                            ELSE [code |-> 0, out |-> "note", err |-> "warning"]
      [] k = "silentbad" -> [code |-> 1, out |-> "", err |-> ""]
      [] k = "dangling"  -> [code |-> 1, out |-> "", err |-> "No such file"]
      [] OTHER           -> [code |-> 1, out |-> "", err |-> ""]

\* Python's `a or b` on strings
StrOr_off(a, b) == a
StrOr(a, b) == IF a # "" THEN a ELSE b

test_with_flac_off(k) ==
    LET r == ProcResult("flac", k) IN
    IF r.code = 0 /\ r.err = "" THEN [ok |-> TRUE, msg |-> ""]
    ELSE [ok |-> FALSE, msg |-> StrOr(r.err, StrOr(r.out, "flac exited with code"))]
test_with_flac(k) ==
    LET r == ProcResult("flac", k) IN
    IF r.code = 0 THEN [ok |-> TRUE, msg |-> ""]
    ELSE [ok |-> FALSE, msg |-> StrOr(r.err, StrOr(r.out, "flac exited with code"))]

test_with_ffmpeg_off(k) ==
    LET r == ProcResult("ffmpeg", k) IN
    IF r.code = 0 THEN [ok |-> TRUE, msg |-> ""]
    ELSE [ok |-> FALSE, msg |-> StrOr(r.err, StrOr(r.out, "ffmpeg exited with code"))]
test_with_ffmpeg(k) ==
    LET r == ProcResult("ffmpeg", k) IN
    IF r.code = 0 /\ r.err = "" THEN [ok |-> TRUE, msg |-> ""]
    ELSE IF r.code = 0 /\ r.err # "" THEN [ok |-> FALSE, msg |-> r.err]
    ELSE [ok |-> FALSE, msg |-> StrOr(r.err, StrOr(r.out, "ffmpeg exited with code"))]

\* _ffmpeg_decode_check after subprocess.run returned: only stderr is read
ffmpeg_decode_check(k) ==
    LET r == ProcResult("ffmpeg", k) IN
    IF r.err # "" THEN [ok |-> FALSE, msg |-> r.err]
    ELSE [ok |-> TRUE, msg |-> "decode ok"]

\* _scan_one_mp3: the row's status and details from the decode check
scan_one_mp3_off(t, c) ==
    IF ~c.ok \/ c.msg = "FFmpeg not available; skipped decode check (status=warn)"
    THEN [path |-> t, ok |-> FALSE, method |-> "-", status |-> "error", msg |-> c.msg]
    ELSE [path |-> t, ok |-> TRUE, method |-> "-", status |-> "ok", msg |-> c.msg]
scan_one_mp3(t, c) ==
    IF c.msg = "FFmpeg not available; skipped decode check (status=warn)"
    THEN [path |-> t, ok |-> FALSE, method |-> "-", status |-> "warn", msg |-> c.msg]
    ELSE IF ~c.ok
    THEN [path |-> t, ok |-> FALSE, method |-> "-", status |-> "error", msg |-> c.msg]
    ELSE [path |-> t, ok |-> TRUE, method |-> "-", status |-> "ok", msg |-> c.msg]

\* _scan_one_mp3: path.stat() raised, the row is an error and nothing is run
stat_failed(t) ==
    [path |-> t, ok |-> FALSE, method |-> "-", status |-> "error",
     msg |-> "stat failed"]

\* the tuple run_flac_mode.worker returns
FlacOutcome(t, ok, method, msg) ==
    [path |-> t, ok |-> ok, method |-> method, status |-> "-",
     msg |-> IF ok THEN "" ELSE msg]

\* worker's `except Exception as e`
ExceptionOutcome_off(t) ==
    [path |-> t, ok |-> TRUE, method |-> "exception", status |-> "-", msg |-> ""]
ExceptionOutcome(t) ==
    [path |-> t, ok |-> FALSE, method |-> "exception", status |-> "-",
     msg |-> "OSError"]

NoResult == [path |-> 0, ok |-> FALSE, method |-> "-", status |-> "-", msg |-> "-"]

\* the first tool test_flac runs, "none" when neither is in PATH
FirstTool_busy ==
    IF has_tool("ffmpeg") /\ \E t \in 1..total : job[t] = "running" THEN "ffmpeg"
    ELSE IF has_tool("flac") THEN "flac"
    ELSE IF has_tool("ffmpeg") THEN "ffmpeg" ELSE "none"
FirstTool_flacfirst ==
    IF has_tool("flac") THEN "flac"
    ELSE IF has_tool("ffmpeg") THEN "ffmpeg" ELSE "none"
FirstTool ==
    IF prefer = "ffmpeg"
    THEN IF has_tool("ffmpeg") THEN "ffmpeg"
         ELSE IF has_tool("flac") THEN "flac" ELSE "none"
    ELSE IF has_tool("flac") THEN "flac"
         ELSE IF has_tool("ffmpeg") THEN "ffmpeg" ELSE "none"

NoneOutcome_off(t) ==
    [path |-> t, ok |-> TRUE, method |-> "none", status |-> "-", msg |-> ""]
NoneOutcome(t) ==
    [path |-> t, ok |-> FALSE, method |-> "none", status |-> "-",
     msg |-> IF prefer = "ffmpeg"
             THEN "Neither 'ffmpeg' nor 'flac' found in PATH."
             ELSE "Neither 'flac' nor 'ffmpeg' found in PATH."]

Running == {t \in Targets : job[t] = "running"}
Queued == {t \in Targets : job[t] = "queued"}
Alive == {t \in Targets : proc[t] # "none"}

\* every worker thread has left its loop: nothing runs, nothing is queued
ThreadsJoined_off == TRUE
ThreadsJoined == Running = {} /\ Queued = {}

\* ------------------------------------------------------------------ Init
\* the scan's own state when run_flac_mode / run_mp3_mode is entered
\* testFLAC.py has not been started
TwinFresh ==
    /\ tpc = "start"
    /\ tjob = [t \in 1..total |-> "new"]
    /\ tresult = [t \in 1..total |-> NoResult]
    /\ ttaken = <<>>
    /\ terrors = <<>>
    /\ tstatus = 0
    /\ trows = <<>>
    /\ topened = FALSE

ScanFresh ==
    /\ TwinFresh
    /\ pending = "none"
    /\ status = 0
    /\ interrupts = 0
    /\ caught = FALSE
    /\ ex = FALSE
    /\ nthreads = 0
    /\ submits = [t \in 1..total |-> 0]
    /\ futures = <<>>
    /\ job = [t \in 1..total |-> "new"]
    /\ proc = [t \in 1..total |-> "none"]
    /\ result = [t \in 1..total |-> NoResult]
    /\ spawned = {}
    /\ taken = <<>>
    /\ checked = 0
    /\ errors = <<>>
    /\ oks = 0 /\ warns = 0 /\ errs = 0 /\ written = 0
    /\ ffmpeg_path = FALSE
    /\ reportOpened = FALSE
    /\ reportRows = <<>>
    /\ runningAtInt = {}
    /\ ownExit = {}
    /\ invoked = [t \in 1..total |-> <<>>]
    /\ tqdmUpdates = 0
    /\ barWrites = 0
    /\ reportAt = "none"
    /\ path0 = path

ScanStart == pc = "start" /\ ScanFresh

\* the arguments of a scan: flags, PATH and the files under the root
ScanArgs(K) ==
    /\ mode \in Modes
    /\ prefer \in Tools
    /\ workers \in -1..MaxWorkers
    /\ only_errors \in BOOLEAN
    /\ verbose \in BOOLEAN
    /\ path \in SUBSET Tools
    /\ total \in 0..MaxTargets
    /\ kind \in [1..total -> K]
    /\ (mode = "flac" => only_errors /\ ~verbose)
    /\ (mode = "mp3" => prefer = "flac" /\ "flac" \notin path)

\* no main around the scan, no library being written
NoShell ==
    /\ argv = "direct"
    /\ mainPc = "scan"
    /\ exitCode = 0
    /\ last_exit = 0
    /\ announced = FALSE
    /\ songs = 0
    /\ current_file = 0

\* a scan called directly, with a progress bar on stdout, a writable report
\* destination and a PATH that stays as it is
Init ==
    /\ ScanArgs(Kinds)
    /\ quiet = FALSE
    /\ have_tqdm = FALSE
    /\ dest = "writable"
    /\ NoShell
    /\ ScanStart

\* --------------------------------------------------------- main thread
Return(s) == pc' = "returned" /\ status' = s

\* `if total == 0` (FLAC), `if not targets` (MP3)
NoTargets_off == FALSE
NoTargets == total = 0

\* `if not (has_tool("flac") or has_tool("ffmpeg"))`
NoValidator_off == FALSE
NoValidator == ~(has_tool("flac") \/ has_tool("ffmpeg"))

\* run_flac_mode: discovery and the empty-scan return
FlacDiscover ==
    /\ pc = "start" /\ mode = "flac"
    /\ IF NoTargets
       THEN Return(0)
       ELSE pc' = "toolcheck" /\ UNCHANGED status
    /\ UNCHANGED <<params, pending, interrupts, caught, pool, taken, counters,
                   ffmpeg_path, report, history,
                   extra>>

\* run_flac_mode: the session-level tool check
FlacToolCheck ==
    /\ pc = "toolcheck"
    /\ IF NoValidator
       THEN Return(2)
       ELSE pc' = "ctor" /\ UNCHANGED status
    /\ UNCHANGED <<params, pending, interrupts, caught, pool, taken, counters,
                   ffmpeg_path, report, history,
                   extra>>

\* run_mp3_mode: ffmpeg_path = _find_ffmpeg(ffmpeg)
Mp3FindFfmpeg ==
    /\ pc = "start" /\ mode = "mp3"
    /\ ffmpeg_path' = has_tool("ffmpeg")
    /\ pc' = "discover"
    /\ UNCHANGED <<params, pending, status, interrupts, caught, pool, taken,
                   counters, report, history,
                   extra>>

\* run_mp3_mode: targets = _find_mp3s(paths) and the empty-scan return
Mp3Discover ==
    /\ pc = "discover"
    /\ IF NoTargets
       THEN Return(0)
       ELSE pc' = "header" /\ UNCHANGED status
    /\ UNCHANGED <<params, pending, interrupts, caught, pool, taken, counters,
                   ffmpeg_path, report, history,
                   extra>>

\* _write_header: the path the CSV is opened at
write_header(d) ==
    CASE d = "denied" -> "rotated"
      [] d = "isdir"  -> "inside"
      [] OTHER        -> "dest"

\* run_mp3_mode: writer, out_path = _write_header(...)
Mp3WriteHeader ==
    /\ pc = "header"
    /\ reportAt' = write_header(dest)
    /\ reportOpened' = (reportAt' # "none")
    /\ reportRows' = <<>>
    /\ pc' = "ctor"
    /\ UNCHANGED <<params, pending, status, interrupts, caught, pool, taken,
                   counters, ffmpeg_path, history,
                   quiet, progress, invoked, outer>>

\* ex = ThreadPoolExecutor(max_workers=max(1, workers))
CreatePool ==
    /\ pc = "ctor"
    /\ ex' = TRUE
    /\ pc' = "submit"
    /\ UNCHANGED <<params, pending, status, interrupts, caught, nthreads,
                   submits, futures, job, proc, result, spawned, taken,
                   counters, ffmpeg_path, report, history,
                   extra>>

Min(S) == CHOOSE x \in S : \A y \in S : x <= y

\* one iteration of the comprehension {ex.submit(worker, p): p for p in ...};
\* `futures` is bound only when the comprehension has finished
Submit ==
    /\ pc = "submit"
    /\ LET t == Min({u \in Targets : job[u] = "new"}) IN
         /\ submits' = [submits EXCEPT ![t] = @ + 1]
         /\ job' = [job EXCEPT ![t] = "queued"]
         /\ nthreads' = IF nthreads < PoolSize(workers) THEN nthreads + 1
                        ELSE nthreads
         /\ IF t = total
            THEN futures' = [i \in 1..total |-> i] /\ pc' = "collect"
            ELSE UNCHANGED <<futures, pc>>
    /\ UNCHANGED <<params, pending, status, interrupts, caught, ex, proc,
                   result, spawned, taken, counters, ffmpeg_path, report,
                   history,
                   extra>>

Range(f) == {f[i] : i \in DOMAIN f}

\* `pbar = tqdm(...)` exists only `if HAVE_TQDM and not quiet`
pbar == have_tqdm /\ ~quiet

\* as_completed yields a finished future, each future once
CanTake_early(t) == job[t] \in {"running", "done"} /\ t \notin Range(taken)
CanTake_off(t) == job[t] = "done"
CanTake(t) == job[t] = "done" /\ t \notin Range(taken)

\* run_mp3_mode: `if not (only_errors and status == "ok")` the row is written
RowWanted_off(r, oe) == TRUE
RowWanted(r, oe) == ~(oe /\ r.status = "ok")

\* the body of `for fut in as_completed(futures)`
Collect(t) ==
    /\ pc = "collect"
    /\ CanTake(t)
    /\ taken' = Append(taken, t)
    /\ LET r == result[t]
           oe == IF verbose THEN FALSE ELSE only_errors
       IN IF mode = "flac"
          THEN /\ checked' = checked + 1
               /\ errors' = IF ~r.ok THEN Append(errors, <<r.path, r.method, r.msg>>)
                            ELSE errors
               /\ IF pbar
                  THEN tqdmUpdates' = tqdmUpdates + 1 /\ UNCHANGED barWrites
                  ELSE barWrites' = barWrites + 1 /\ UNCHANGED tqdmUpdates
               /\ UNCHANGED <<oks, warns, errs, written, report, only_errors>>
          ELSE /\ oks' = IF r.status = "ok" THEN oks + 1 ELSE oks
               /\ warns' = IF r.status = "warn" THEN warns + 1 ELSE warns
               /\ errs' = IF r.status \notin {"ok", "warn"} THEN errs + 1 ELSE errs
               /\ only_errors' = oe
               /\ IF RowWanted(r, oe)
                  THEN /\ reportRows' = Append(reportRows, <<r.path, r.status, r.msg>>)
                       /\ written' = written + 1
                  ELSE UNCHANGED <<reportRows, written>>
               /\ IF pbar
                  THEN tqdmUpdates' = tqdmUpdates + 1 /\ UNCHANGED barWrites
                  ELSE UNCHANGED progress
               /\ UNCHANGED <<checked, errors, reportOpened>>
    /\ pc' = IF Range(taken') = Targets THEN "finally" ELSE "collect"
    /\ UNCHANGED <<mode, prefer, workers, verbose, path, total, kind, pending,
                   status, interrupts, caught, pool, ffmpeg_path, history,
                   quiet, reportAt, invoked, outer>>

\* SIGINT: KeyboardInterrupt is raised in the main thread, wherever it is
InTry == pc \in {"ctor", "submit", "collect"}
InHandler == pc \in {"h_cancel", "h_shutdown", "h_join"}

Interrupt ==
    /\ pc \notin {"idle", "returned", "raised", "failed"}
    /\ interrupts' = interrupts + 1
    /\ caught' = IF interrupts = 0 THEN InTry ELSE caught
    /\ runningAtInt' = IF interrupts = 0 /\ InTry THEN Alive ELSE runningAtInt
    /\ IF InTry THEN pc' = "h_cancel" /\ UNCHANGED pending
       ELSE IF InHandler THEN pc' = "finally" /\ pending' = "raise"
       ELSE pc' = "raised" /\ UNCHANGED pending
    /\ UNCHANGED <<params, status, pool, taken, counters, ffmpeg_path, report,
                   ownExit,
                   extra>>

\* the futures `for f in futures: f.cancel()` cancels
CancelledByLoop == {t \in Range(futures) : job[t] = "queued"}

\* the work items ex.shutdown(cancel_futures=True) drains from the queue
CancelledByShutdown_off == {}
CancelledByShutdown == Queued

\* except KeyboardInterrupt: `if ex is not None: for f in futures: f.cancel()`
HandlerCancel ==
    /\ pc = "h_cancel"
    /\ IF ex
       THEN /\ job' = [t \in Targets |->
                        IF t \in CancelledByLoop THEN "cancelled" ELSE job[t]]
            /\ pc' = "h_shutdown"
            /\ UNCHANGED pending
       ELSE /\ pc' = "finally"
            /\ pending' = "ret130"
            /\ UNCHANGED job
    /\ UNCHANGED <<params, status, interrupts, caught, ex, nthreads, submits,
                   futures, proc, result, spawned, taken, counters,
                   ffmpeg_path, report, history,
                   extra>>

\* ex.shutdown(cancel_futures=True): drain the queue, cancelling what is in it
HandlerShutdown ==
    /\ pc = "h_shutdown"
    /\ job' = [t \in Targets |->
                IF t \in CancelledByShutdown THEN "cancelled" ELSE job[t]]
    /\ pc' = "h_join"
    /\ UNCHANGED <<params, pending, status, interrupts, caught, ex, nthreads,
                   submits, futures, proc, result, spawned, taken, counters,
                   ffmpeg_path, report, history,
                   extra>>

\* ex.shutdown(cancel_futures=True): join the worker threads; `return 130`
HandlerJoin ==
    /\ pc = "h_join"
    /\ ThreadsJoined
    /\ pc' = "finally"
    /\ pending' = "ret130"
    /\ UNCHANGED <<params, status, interrupts, caught, pool, taken, counters,
                   ffmpeg_path, report, history,
                   extra>>

\* `return 130` in the KeyboardInterrupt handler
InterruptStatus_off == IF errors # <<>> THEN 1 ELSE 0
InterruptStatus == 130

\* finally: `if ex is not None: ex.shutdown(wait=True)`, then what was pending
Finally ==
    /\ pc = "finally"
    /\ ex => ThreadsJoined
    /\ CASE pending = "ret130" -> Return(InterruptStatus)
         [] pending = "raise"  -> pc' = "raised" /\ UNCHANGED status
         [] OTHER              -> pc' = "report" /\ UNCHANGED status
    /\ UNCHANGED <<params, pending, interrupts, caught, pool, taken, counters,
                   ffmpeg_path, report, history,
                   extra>>

\* run_flac_mode: `if errors:` write the CSV and return 1, else return 0;
\* run_mp3_mode: `return 1 if errs > 0 else 0`
FlacExit_off == IF errors # <<>> THEN 0 ELSE 1
FlacExit == IF errors # <<>> THEN 1 ELSE 0

\* `with open(out_path, "w", ...)` in run_flac_mode: the path it opens, "none"
\* when open raises PermissionError or IsADirectoryError
flac_open(d) == IF d = "writable" THEN "dest" ELSE "none"

\* run_flac_mode, after the finally block: `if errors:`
HasErrors_off == checked > 0
HasErrors == errors # <<>>

Finish ==
    /\ pc = "report"
    /\ IF mode = "flac"
       THEN IF HasErrors /\ flac_open(dest) = "none"
            THEN /\ pc' = "failed"
                 /\ UNCHANGED <<status, report, reportAt>>
            ELSE /\ Return(FlacExit)
                 /\ IF HasErrors
                    THEN /\ reportOpened' = TRUE
                         /\ reportRows' = errors
                         /\ reportAt' = flac_open(dest)
                    ELSE UNCHANGED <<report, reportAt>>
       ELSE /\ Return(IF errs > 0 THEN 1 ELSE 0)
            /\ UNCHANGED <<report, reportAt>>
    /\ UNCHANGED <<params, pending, interrupts, caught, pool, taken, counters,
                   ffmpeg_path, history,
                   quiet, progress, invoked, outer>>

\* ------------------------------------------------------ worker threads
\* the ffmpeg_path argument ex.submit passes to _scan_one_mp3
FfmpegArg_off == has_tool("ffmpeg")
FfmpegArg == ffmpeg_path

\* test_flac, after ffmpeg ran: `if ok or not has_tool("flac"): return`
\* under prefer == "ffmpeg", else flac is tested
FallsBack_off(r) == prefer = "ffmpeg" /\ ~r.ok
FallsBack(r) == prefer = "ffmpeg" /\ ~(r.ok \/ ~has_tool("flac"))

Done(t, r) ==
    /\ job' = [job EXCEPT ![t] = "done"]
    /\ result' = [result EXCEPT ![t] = r]
    /\ proc' = [proc EXCEPT ![t] = "none"]

Spawn(t, tool) ==
    /\ job' = [job EXCEPT ![t] = "running"]
    /\ proc' = [proc EXCEPT ![t] = tool]
    /\ spawned' = spawned \cup {<<t, tool>>}
    /\ invoked' = [invoked EXCEPT ![t] = Append(@, tool)]
    /\ UNCHANGED result

\* a worker thread takes the head of the work queue and runs the job up to
\* the point where it waits for the validator process
StartJob(t) ==
    /\ job[t] = "queued"
    /\ t = Min(Queued)
    /\ Cardinality(Running) < nthreads
    /\ IF mode = "flac"
       THEN IF FirstTool = "none"
            THEN Done(t, NoneOutcome(t)) /\ UNCHANGED <<spawned, invoked>>
            ELSE IF kind[t] = "nospawn"
            THEN Done(t, ExceptionOutcome(t)) /\ UNCHANGED <<spawned, invoked>>
            ELSE Spawn(t, FirstTool)
       ELSE IF kind[t] = "dangling"
            THEN Done(t, stat_failed(t)) /\ UNCHANGED <<spawned, invoked>>
            ELSE IF ~FfmpegArg
            THEN /\ Done(t, scan_one_mp3(t, [ok |-> TRUE,
                     msg |-> "FFmpeg not available; skipped decode check (status=warn)"]))
                 /\ UNCHANGED <<spawned, invoked>>
            ELSE IF kind[t] = "nospawn" \/ ~has_tool("ffmpeg")
            THEN /\ Done(t, scan_one_mp3(t, [ok |-> FALSE,
                     msg |-> "FFmpeg invocation failed"]))
                 /\ UNCHANGED <<spawned, invoked>>
            ELSE Spawn(t, "ffmpeg")
    /\ UNCHANGED <<params, pc, pending, status, interrupts, caught, ex,
                   nthreads, submits, futures, taken, counters, ffmpeg_path,
                   report, history,
                   quiet, progress, reportAt, outer>>

\* the validator process of job t exits; the worker classifies its result
ProcExit(t) ==
    /\ proc[t] # "none"
    /\ ownExit' = IF t \in runningAtInt THEN ownExit \cup {t} ELSE ownExit
    /\ IF mode = "mp3"
       THEN Done(t, scan_one_mp3(t, ffmpeg_decode_check(kind[t])))
            /\ UNCHANGED <<spawned, invoked>>
       ELSE IF proc[t] = "flac"
       THEN LET r == test_with_flac(kind[t]) IN
              Done(t, FlacOutcome(t, r.ok, "flac", r.msg)) /\ UNCHANGED <<spawned, invoked>>
       ELSE LET r == test_with_ffmpeg(kind[t]) IN
              IF FallsBack(r)
              THEN Spawn(t, "flac")
              ELSE Done(t, FlacOutcome(t, r.ok, "ffmpeg", r.msg))
                   /\ UNCHANGED <<spawned, invoked>>
    /\ UNCHANGED <<params, pc, pending, status, interrupts, caught, ex,
                   nthreads, submits, futures, taken, counters, ffmpeg_path,
                   report, runningAtInt,
                   quiet, progress, reportAt, outer>>

Next ==
    \/ FlacDiscover
    \/ FlacToolCheck
    \/ Mp3FindFfmpeg
    \/ Mp3Discover
    \/ Mp3WriteHeader
    \/ CreatePool
    \/ Submit
    \/ \E t \in Targets : Collect(t)
    \/ Interrupt
    \/ HandlerCancel
    \/ HandlerShutdown
    \/ HandlerJoin
    \/ Finally
    \/ Finish
    \/ \E t \in Targets : StartJob(t)
    \/ \E t \in Targets : ProcExit(t)

Spec == Init /\ [][Next]_vars

\* -------------------------------------------- a changing environment
\* the kinds of file the scans of SpecEnv meet
EnvKinds == {"good", "noisy"}

\* while the scan runs, PATH changes, once: tools are installed or removed
PathChange ==
    /\ pc \notin {"start", "toolcheck", "idle", "returned", "raised", "failed"}
    /\ path = path0
    /\ \E p \in SUBSET Tools :
          /\ p # path
          /\ mode = "mp3" => "flac" \notin p
          /\ path' = p
    /\ UNCHANGED <<mode, prefer, workers, only_errors, verbose, total, kind,
                   pc, pending, status, interrupts, caught, pool, taken,
                   counters, ffmpeg_path, report, history, extra>>

\* a scan called directly with at least one worker asked for
InitEnv ==
    /\ ScanArgs(EnvKinds)
    /\ workers >= 1
    /\ quiet = FALSE
    /\ have_tqdm = FALSE
    /\ dest = "writable"
    /\ NoShell
    /\ ScanStart

NextEnv == Next \/ PathChange

SpecEnv == InitEnv /\ [][NextEnv]_vars

\* ------------------------------------------------- a scan that is run on
\* the kinds of file the scans of SpecLive meet
LiveKinds == {"good", "bad"}

\* every step of the program itself; not the operator's SIGINT
Step ==
    \/ FlacDiscover
    \/ FlacToolCheck
    \/ Mp3FindFfmpeg
    \/ Mp3Discover
    \/ Mp3WriteHeader
    \/ CreatePool
    \/ Submit
    \/ \E t \in Targets : Collect(t)
    \/ HandlerCancel
    \/ HandlerShutdown
    \/ HandlerJoin
    \/ Finally
    \/ Finish
    \/ \E t \in Targets : StartJob(t)
    \/ \E t \in Targets : ProcExit(t)

InitLive ==
    /\ ScanArgs(LiveKinds)
    /\ workers >= 0
    /\ only_errors /\ ~verbose
    /\ quiet = FALSE /\ have_tqdm = FALSE /\ dest = "writable"
    /\ NoShell
    /\ ScanStart

\* the interpreter keeps running the main thread and the worker threads,
\* and every validator process exits
SpecLive == InitLive /\ [][Next]_vars /\ WF_vars(Step)

\* ------------------------------------------ main, menu and library mode
\* the kinds of file and the command lines the sessions of SpecMain meet
MainKinds == {"good", "bad"}
MainArgv == {"none", "library", "testFLAC", "testMP3", "noflag"}

fixed == <<params, quiet, have_tqdm, dest, argv, songs, twin>>
scanrest == <<pending, status, caught, pool, taken, counters, ffmpeg_path,
              report, history, reportAt, invoked, path0>>

\* run_flac_mode / run_mp3_mode is called: its locals are fresh
ScanEnter ==
    /\ mainPc' = "scan"
    /\ pc' = "start"
    /\ pending' = "none"
    /\ status' = 0
    /\ interrupts' = 0
    /\ caught' = FALSE
    /\ ex' = FALSE
    /\ nthreads' = 0
    /\ submits' = [t \in 1..total |-> 0]
    /\ futures' = <<>>
    /\ job' = [t \in 1..total |-> "new"]
    /\ proc' = [t \in 1..total |-> "none"]
    /\ result' = [t \in 1..total |-> NoResult]
    /\ spawned' = {}
    /\ taken' = <<>>
    /\ checked' = 0
    /\ errors' = <<>>
    /\ oks' = 0 /\ warns' = 0 /\ errs' = 0 /\ written' = 0
    /\ ffmpeg_path' = FALSE
    /\ reportOpened' = FALSE
    /\ reportRows' = <<>>
    /\ runningAtInt' = {}
    /\ ownExit' = {}
    /\ invoked' = [t \in 1..total |-> <<>>]
    /\ tqdmUpdates' = 0
    /\ barWrites' = 0
    /\ reportAt' = "none"
    /\ path0' = path
    /\ announced' = FALSE
    /\ UNCHANGED current_file

\* write_music_library_tree is called
LibEnter ==
    /\ mainPc' = "lib_count"
    /\ current_file' = 0
    /\ interrupts' = 0
    /\ tqdmUpdates' = 0
    /\ barWrites' = 0
    /\ announced' = FALSE
    /\ UNCHANGED <<pc, scanrest>>

\* main: no arguments, the menu; else the mode the flag names; else help
MainDispatch ==
    /\ mainPc = "main"
    /\ IF argv = "none"
       THEN /\ mainPc' = "menu"
            /\ UNCHANGED <<pc, interrupts, progress, current_file, announced,
                           scanrest, exitCode>>
       ELSE IF argv = "library" THEN LibEnter /\ UNCHANGED exitCode
       ELSE IF argv \in {"testFLAC", "testMP3"} THEN ScanEnter /\ UNCHANGED exitCode
       ELSE /\ mainPc' = "exit"
            /\ exitCode' = 2
            /\ UNCHANGED <<pc, interrupts, progress, current_file, announced,
                           scanrest>>
    /\ UNCHANGED <<fixed, last_exit>>

\* interactive_menu: one round of `while True`
MenuChoices == {"library", "scan", "quit", "eof"}
MenuChoice(c) ==
    /\ mainPc = "menu"
    /\ CASE c = "library" -> LibEnter /\ UNCHANGED <<exitCode, last_exit>>
         [] c = "scan"    -> ScanEnter /\ UNCHANGED <<exitCode, last_exit>>
         [] c = "quit"    -> /\ mainPc' = "exit"
                             /\ exitCode' = last_exit
                             /\ UNCHANGED <<pc, interrupts, progress, current_file,
                                            announced, scanrest, last_exit>>
         [] OTHER         -> /\ mainPc' = "exit"
                             /\ exitCode' = 130
                             /\ UNCHANGED <<pc, interrupts, progress, current_file,
                                            announced, scanrest, last_exit>>
    /\ UNCHANGED fixed

\* the exit code of a run_*_mode call that ended: its return value, 130 for
\* a KeyboardInterrupt that left it, 1 for any other exception (traceback)
ScanCode == IF pc = "returned" THEN status ELSE IF pc = "raised" THEN 130 ELSE 1

\* the scan main or the menu called has ended
ScanReturn ==
    /\ mainPc = "scan"
    /\ pc \in {"returned", "raised", "failed"}
    /\ pc' = "idle"
    /\ IF argv = "none" /\ pc = "returned"
       THEN mainPc' = "menu" /\ last_exit' = ScanCode /\ UNCHANGED exitCode
       ELSE mainPc' = "exit" /\ exitCode' = ScanCode /\ UNCHANGED last_exit
    /\ UNCHANGED <<fixed, interrupts, progress, current_file, announced, scanrest>>

\* write_music_library_tree: count_audio_files, then `open(output_file, 'w')`
LibCount ==
    /\ mainPc = "lib_count"
    /\ IF dest = "writable"
       THEN mainPc' = "lib_write" /\ UNCHANGED exitCode
       ELSE mainPc' = "exit" /\ exitCode' = 1
    /\ UNCHANGED <<fixed, pc, interrupts, progress, current_file, announced,
                   scanrest, last_exit>>

\* the body of `for j, song in enumerate(songs)`
LibSong ==
    /\ mainPc = "lib_write"
    /\ current_file < songs
    /\ current_file' = current_file + 1
    /\ IF pbar
       THEN tqdmUpdates' = tqdmUpdates + 1 /\ UNCHANGED barWrites
       ELSE barWrites' = barWrites + 1 /\ UNCHANGED tqdmUpdates
    /\ UNCHANGED <<fixed, pc, interrupts, announced, scanrest, mainPc, exitCode,
                   last_exit>>

\* the loops are over; write_music_library_tree returns
LibReturn ==
    /\ mainPc = "lib_write"
    /\ current_file = songs
    /\ mainPc' = "lib_ret"
    /\ UNCHANGED <<fixed, pc, interrupts, progress, current_file, announced,
                   scanrest, exitCode, last_exit>>

\* SIGINT inside the writer's try: `except KeyboardInterrupt: ... return`
LibInterrupt ==
    /\ mainPc = "lib_write"
    /\ interrupts' = interrupts + 1
    /\ mainPc' = "lib_ret"
    /\ UNCHANGED <<fixed, pc, progress, current_file, announced, scanrest,
                   exitCode, last_exit>>

\* SIGINT outside the writer's try: main's or the menu's handler takes it
ShellInterrupt ==
    /\ mainPc \in {"main", "lib_count", "lib_ret"}
    /\ interrupts' = interrupts + 1
    /\ IF argv = "none" /\ mainPc # "main"
       THEN mainPc' = "menu" /\ last_exit' = 130 /\ UNCHANGED exitCode
       ELSE mainPc' = "exit" /\ exitCode' = 130 /\ UNCHANGED last_exit
    /\ UNCHANGED <<fixed, pc, progress, current_file, announced, scanrest>>

\* after the writer returned: "Music library written to ..." and code 0
LibAfter ==
    /\ mainPc = "lib_ret"
    /\ announced' = ~quiet
    /\ IF argv = "none"
       THEN mainPc' = "menu" /\ last_exit' = 0 /\ UNCHANGED exitCode
       ELSE mainPc' = "exit" /\ exitCode' = 0 /\ UNCHANGED last_exit
    /\ UNCHANGED <<fixed, pc, interrupts, progress, current_file, scanrest>>

InitMain ==
    /\ ScanArgs(MainKinds)
    /\ total <= MaxFiles
    /\ argv \in MainArgv
    /\ argv = "testFLAC" => mode = "flac"
    /\ argv = "testMP3" => mode = "mp3"
    /\ argv \in {"library", "noflag"} =>
          mode = "flac" /\ prefer = "flac" /\ workers = 1 /\ path = {} /\ total = 0
    /\ argv = "none" => workers >= 1 /\ (mode = "mp3" => only_errors = ~verbose)
    /\ quiet \in BOOLEAN
    /\ argv = "none" => ~quiet
    /\ have_tqdm \in BOOLEAN
    /\ dest \in Dests
    /\ songs \in 0..MaxSongs
    /\ argv \in {"testFLAC", "testMP3", "noflag"} => songs = 0
    /\ mainPc = "main"
    /\ exitCode = 0
    /\ last_exit = 0
    /\ announced = FALSE
    /\ current_file = 0
    /\ pc = "idle"
    /\ ScanFresh

NextMain ==
    \/ Next
    \/ MainDispatch
    \/ \E c \in MenuChoices : MenuChoice(c)
    \/ ScanReturn
    \/ LibCount
    \/ LibSong
    \/ LibReturn
    \/ LibInterrupt
    \/ ShellInterrupt
    \/ LibAfter

SpecMain == InitMain /\ [][NextMain]_vars

\* ------------------------------------- testFLAC.py, the standalone checker
\* the kinds of file the scans of SpecTwin meet
TwinKinds == {"good", "bad", "noisy", "silentbad", "nospawn"}

\* everything getMusic.py owns
host == <<params, pc, pending, status, interrupts, caught, pool, taken,
          counters, ffmpeg_path, report, history, quiet, progress, reportAt,
          invoked, have_tqdm, dest, argv, mainPc, exitCode, last_exit,
          announced, songs, current_file, path0>>

testFLAC_test_with_flac(k) ==
    LET r == ProcResult("flac", k) IN
    IF r.code = 0 THEN [ok |-> TRUE, msg |-> ""]
    ELSE [ok |-> FALSE, msg |-> StrOr(r.err, StrOr(r.out, "flac exited with code"))]

testFLAC_test_with_ffmpeg(k) ==
    LET r == ProcResult("ffmpeg", k) IN
    IF r.code = 0 /\ r.err = "" THEN [ok |-> TRUE, msg |-> ""]
    ELSE IF r.code = 0 /\ r.err # "" THEN [ok |-> FALSE, msg |-> r.err]
    ELSE [ok |-> FALSE, msg |-> StrOr(r.err, StrOr(r.out, "ffmpeg exited with code"))]

\* testFLAC.py test_flac, for a file whose validator can be spawned
testFLAC_test_flac_off(t) ==
    IF has_tool(prefer)
    THEN LET r == IF prefer = "ffmpeg" THEN testFLAC_test_with_ffmpeg(kind[t])
                  ELSE testFLAC_test_with_flac(kind[t])
         IN FlacOutcome(t, r.ok, prefer, r.msg)
    ELSE NoneOutcome(t)
testFLAC_test_flac(t) ==
    LET f == testFLAC_test_with_flac(kind[t])
        g == testFLAC_test_with_ffmpeg(kind[t])
    IN IF prefer = "ffmpeg"
       THEN IF has_tool("ffmpeg") /\ (g.ok \/ ~has_tool("flac"))
            THEN FlacOutcome(t, g.ok, "ffmpeg", g.msg)
            ELSE IF has_tool("flac") THEN FlacOutcome(t, f.ok, "flac", f.msg)
            ELSE [path |-> t, ok |-> FALSE, method |-> "none", status |-> "-",
                  msg |-> "Neither 'ffmpeg' nor 'flac' found in PATH."]
       ELSE IF has_tool("flac") THEN FlacOutcome(t, f.ok, "flac", f.msg)
            ELSE IF has_tool("ffmpeg") THEN FlacOutcome(t, g.ok, "ffmpeg", g.msg)
            ELSE [path |-> t, ok |-> FALSE, method |-> "none", status |-> "-",
                  msg |-> "Neither 'flac' nor 'ffmpeg' found in PATH."]

\* testFLAC.py main.worker: Popen raising is caught by `except Exception`
testFLAC_worker(t) ==
    IF kind[t] = "nospawn" /\ (has_tool("flac") \/ has_tool("ffmpeg"))
    THEN [path |-> t, ok |-> FALSE, method |-> "exception", status |-> "-",
          msg |-> "OSError"]
    ELSE testFLAC_test_flac(t)

TwinRunning == {t \in Targets : tjob[t] = "running"}
TwinQueued == {t \in Targets : tjob[t] = "queued"}

\* testFLAC.py is run once getMusic.py's scan of the same tree has ended;
\* main: find_flacs, `if total == 0: return 0`
TwinDiscover ==
    /\ pc \in {"returned", "failed"}
    /\ tpc = "start"
    /\ IF total = 0 THEN tpc' = "returned" /\ tstatus' = 0
       ELSE tpc' = "toolcheck" /\ UNCHANGED tstatus
    /\ UNCHANGED <<host, tjob, tresult, ttaken, terrors, trows, topened>>

\* main: `if not (has_tool("flac") or has_tool("ffmpeg")): return 2`
TwinToolCheck ==
    /\ tpc = "toolcheck"
    /\ IF ~(has_tool("flac") \/ has_tool("ffmpeg"))
       THEN tpc' = "returned" /\ tstatus' = 2
       ELSE tpc' = "submit" /\ UNCHANGED tstatus
    /\ UNCHANGED <<host, tjob, tresult, ttaken, terrors, trows, topened>>

\* main: `with ThreadPoolExecutor(...) as ex: futures = {ex.submit(...) ...}`
TwinSubmit ==
    /\ tpc = "submit"
    /\ tjob' = [t \in 1..total |-> "queued"]
    /\ tpc' = "collect"
    /\ UNCHANGED <<host, tresult, ttaken, terrors, tstatus, trows, topened>>

\* a worker thread of the pool of max(1, args.workers) takes the next job
TwinStart(t) ==
    /\ tjob[t] = "queued"
    /\ t = Min(TwinQueued)
    /\ Cardinality(TwinRunning) < Max(1, workers)
    /\ tjob' = [tjob EXCEPT ![t] = "running"]
    /\ UNCHANGED <<host, tpc, tresult, ttaken, terrors, tstatus, trows, topened>>

\* the job ends: worker returns its tuple
TwinEnd(t) ==
    /\ tjob[t] = "running"
    /\ tjob' = [tjob EXCEPT ![t] = "done"]
    /\ tresult' = [tresult EXCEPT ![t] = testFLAC_worker(t)]
    /\ UNCHANGED <<host, tpc, ttaken, terrors, tstatus, trows, topened>>

\* main: the body of `for fut in as_completed(futures)`
TwinCollect(t) ==
    /\ tpc = "collect"
    /\ tjob[t] = "done" /\ t \notin Range(ttaken)
    /\ ttaken' = Append(ttaken, t)
    /\ terrors' = IF ~tresult[t].ok
                  THEN Append(terrors, <<tresult[t].path, tresult[t].method,
                                         tresult[t].msg>>)
                  ELSE terrors
    /\ tpc' = IF Range(ttaken') = Targets THEN "report" ELSE "collect"
    /\ UNCHANGED <<host, tjob, tresult, tstatus, trows, topened>>

\* main: `if errors:` write the CSV and return 1, else return 0
TwinFinish ==
    /\ tpc = "report"
    /\ IF terrors # <<>>
       THEN IF dest # "writable"
            THEN tpc' = "failed" /\ UNCHANGED <<tstatus, trows, topened>>
            ELSE /\ tpc' = "returned" /\ tstatus' = 1
                 /\ trows' = terrors /\ topened' = TRUE
       ELSE tpc' = "returned" /\ tstatus' = 0 /\ UNCHANGED <<trows, topened>>
    /\ UNCHANGED <<host, tjob, tresult, ttaken, terrors>>

\* both programs are run on the same tree, without SIGINT
InitTwin ==
    /\ ScanArgs(TwinKinds)
    /\ mode = "flac"
    /\ quiet = FALSE /\ have_tqdm = FALSE
    /\ dest \in Dests
    /\ NoShell
    /\ ScanStart

NextTwin ==
    \/ FlacDiscover
    \/ FlacToolCheck
    \/ CreatePool
    \/ Submit
    \/ \E t \in Targets : Collect(t)
    \/ Finally
    \/ Finish
    \/ \E t \in Targets : StartJob(t)
    \/ \E t \in Targets : ProcExit(t)
    \/ TwinDiscover
    \/ TwinToolCheck
    \/ TwinSubmit
    \/ \E t \in Targets : TwinStart(t)
    \/ \E t \in Targets : TwinEnd(t)
    \/ \E t \in Targets : TwinCollect(t)
    \/ TwinFinish

SpecTwin == InitTwin /\ [][NextTwin]_vars

TypeOK ==
    /\ pc \in {"start", "toolcheck", "discover", "header", "ctor", "submit",
               "collect", "h_cancel", "h_shutdown", "h_join", "finally",
               "report", "returned", "raised", "failed", "idle"}
    /\ status \in {0, 1, 2, 130}
    /\ pending \in {"none", "ret130", "raise"}
    /\ \A t \in Targets : job[t] \in {"new", "queued", "running", "done", "cancelled"}
    /\ \A t \in Targets : proc[t] \in Tools \cup {"none"}
\* ================================================================ claims
Count(seq, t) == Cardinality({i \in DOMAIN seq : seq[i] = t})
Uninterrupted == pc = "returned" /\ interrupts = 0
NoToolAtStart == IF mode = "flac" THEN path = {} ELSE "ffmpeg" \notin path
Limit == IF workers >= 1 THEN workers ELSE 1
SpawnedFor(t) == {p \in spawned : p[1] = t}

\* C1: in FLAC and MP3 mode no target is ever submitted twice and no job's
\* result is ever consumed twice; when an uninterrupted scan that dispatched
\* its targets returns, every target was submitted exactly once and the
\* collector consumed exactly one outcome for it.
C1_ExactlyOneOutcome ==
    /\ \A t \in Targets : submits[t] <= 1 /\ Count(taken, t) <= 1
    /\ \A t \in Targets : Count(taken, t) = 1 => result[t] # NoResult
    /\ (Uninterrupted /\ status \in {0, 1})
          => \A t \in Targets : /\ submits[t] = 1
                                /\ Count(taken, t) = 1
                                /\ result[t].path = t

C1_Witness ==
    /\ Uninterrupted /\ total >= 2 /\ status = 1
    /\ \A t \in Targets : submits[t] = 1 /\ Count(taken, t) = 1

\* C2 (as claimed): in FLAC mode and in MP3 mode, when no validator tool is
\* available and at least one target was discovered, no job is ever
\* submitted, no validator process is spawned, no outcome is recorded, and
\* the scan returns 2.
C2_AbortsInEveryMode ==
    (NoToolAtStart /\ total > 0)
        => /\ \A t \in Targets : submits[t] = 0
           /\ spawned = {}
           /\ taken = <<>>
           /\ (pc = "returned" => status = 2)

\* C2 (amended): with no validator tool and at least one target, no validator
\* process is ever spawned; the FLAC scan submits no job, records no outcome
\* and returns 2; the MP3 scan goes on, no outcome it records is ok: each is a
\* "warn" about the missing ffmpeg, or an "error" when the file's stat failed;
\* uninterrupted it has one outcome per target and returns 0, or 1 when a
\* stat failed, never 2.
C2_AbortsInFlacWarnsInMp3 ==
    (NoToolAtStart /\ total > 0)
        => /\ spawned = {}
           /\ mode = "flac" =>
                /\ \A t \in Targets : submits[t] = 0
                /\ taken = <<>> /\ checked = 0
                /\ (pc = "returned" => status = 2)
           /\ mode = "mp3" =>
                /\ \A t \in Range(taken) :
                      result[t].status =
                          IF kind[t] = "dangling" THEN "error" ELSE "warn"
                /\ oks = 0 /\ warns + errs = Len(taken)
                /\ Uninterrupted =>
                      /\ Range(taken) = Targets
                      /\ status = IF \E t \in Targets : kind[t] = "dangling"
                                  THEN 1 ELSE 0

C2_Witness ==
    /\ NoToolAtStart /\ total > 0 /\ pc = "returned"
    /\ \/ mode = "flac" /\ status = 2
       \/ mode = "mp3" /\ status = 0 /\ warns = total

\* C3: once an interrupt was raised while the scan was constructing the pool,
\* submitting or collecting, the scan never returns 0, 1 or 2; if it was the
\* only interrupt, the scan ends by returning 130.
C3_InterruptReturns130 ==
    /\ (caught /\ pc = "returned") => status = 130
    /\ (caught /\ interrupts = 1 /\ pc \in {"returned", "raised"})
          => pc = "returned" /\ status = 130

C3_Witness ==
    /\ caught /\ interrupts = 1 /\ pc = "returned" /\ status = 130
    /\ errors # <<>>

\* C4 (as claimed): a validator process that is running when the interrupt
\* arrives is killed; it is never left to run to completion.
C4_RunningProcessesKilled == runningAtInt \cap ownExit = {}

\* C5: whenever the scan has returned, no worker thread is running a job and
\* no validator process started by the scan is alive.
C5_NothingSurvivesReturn ==
    pc = "returned" => Running = {} /\ Alive = {}

C5_Witness ==
    /\ pc = "returned" /\ status = 130
    /\ runningAtInt # {} /\ Running = {} /\ Alive = {}

\* C6: once the interrupt handler has cancelled the futures and drained the
\* queue, no job is queued; a cancelled job has no result, was never taken by
\* the collector and never spawned a process; and from then on no job that
\* has not started changes state or spawns a process.
HandlerRan == pc = "h_join" \/ pending = "ret130"

C6_QueuedJobsNeverStart ==
    /\ [](HandlerRan =>
            /\ Queued = {}
            /\ \A t \in Targets : job[t] = "cancelled" =>
                  /\ result[t] = NoResult
                  /\ t \notin Range(taken)
                  /\ SpawnedFor(t) = {})
    /\ [][HandlerRan =>
            \A t \in Targets : job[t] \in {"new", "queued", "cancelled"} =>
                  /\ job'[t] = job[t]
                  /\ proc'[t] = "none"
                  /\ {p \in spawned' : p[1] = t} = SpawnedFor(t)]_vars

C6_Witness ==
    /\ pc = "returned" /\ status = 130 /\ futures = <<>>
    /\ \E t \in Targets : job[t] = "cancelled"

\* C7: at every moment the number of running jobs, of live validator
\* processes and of worker threads is at most max(1, workers); with workers
\* of 0 or less there is one worker at most.
C7_BoundedConcurrency ==
    /\ Cardinality(Running) <= Limit
    /\ Cardinality(Alive) <= Limit
    /\ nthreads <= Limit
    /\ workers <= 0 => Cardinality(Running) <= 1 /\ nthreads <= 1

C7_Witness ==
    /\ workers <= 0 /\ Cardinality(Running) = 1 /\ Queued # {}

\* C8: an uninterrupted FLAC scan with a target and a tool returns 1 exactly
\* when some outcome is not ok and 0 exactly when all are ok; when it has
\* returned 1 the report holds the failing rows.
C8_FlacExitStatus ==
    (mode = "flac" /\ Uninterrupted /\ total > 0 /\ path # {})
        => /\ status = 1 <=> \E t \in Targets : ~result[t].ok
           /\ status = 0 <=> \A t \in Targets : result[t].ok
           /\ status = 1 => reportOpened /\ reportRows = errors /\ errors # <<>>

C8_Witness ==
    /\ mode = "flac" /\ Uninterrupted /\ status = 1 /\ reportOpened
    /\ \E t \in Targets : result[t].ok
    /\ \E t \in Targets : ~result[t].ok

\* C9: with zero targets the scan never leaves discovery: no pool is
\* created, no process is spawned, the report file is never opened for
\* writing, and when the scan returns it returns 0, with or without a tool.
C9_EmptyScan ==
    total = 0
        => /\ ~ex /\ spawned = {} /\ ~reportOpened
           /\ pc \in {"start", "discover", "returned", "raised"}
           /\ (pc = "returned" => status = 0)

C9_Witness == total = 0 /\ pc = "returned" /\ status = 0 /\ path = {}

\* C10: in FLAC mode a job whose validator cannot be spawned ends with a
\* non-ok outcome with method "exception" and a message; the uninterrupted
\* scan still returns 0 or 1 with an outcome for every target.
C10_SpawnFailureIsAnOutcome ==
    mode = "flac"
        => /\ \A t \in Targets : (job[t] = "done" /\ kind[t] = "nospawn") =>
                 /\ ~result[t].ok
                 /\ result[t].method = "exception"
                 /\ result[t].msg # ""
           /\ \A t \in Targets : (job[t] = "done" /\ kind[t] # "nospawn") =>
                 result[t].method \in Tools
           /\ (Uninterrupted /\ total > 0 /\ path # {})
                 => /\ status \in {0, 1}
                    /\ \A t \in Targets : job[t] = "done" /\ Count(taken, t) = 1

C10_Witness ==
    /\ mode = "flac" /\ Uninterrupted /\ status = 1
    /\ \E t \in Targets : kind[t] = "nospawn" /\ result[t].method = "exception"
    /\ \E t \in Targets : kind[t] = "good" /\ result[t].ok

\* C11: a validator is started only while it is in PATH, and when the
\* preferred tool is in PATH as a FLAC job starts, the first validator the
\* job starts is the preferred one.
C11_PreferredFirst ==
    [][\A t \in Targets :
          invoked'[t] # invoked[t] =>
              LET tool == invoked'[t][Len(invoked'[t])] IN
                 /\ tool \in path
                 /\ (mode = "flac" /\ invoked[t] = <<>> /\ prefer \in path)
                        => tool = prefer]_vars

C11_Witness ==
    /\ mode = "flac" /\ prefer = "ffmpeg" /\ path = Tools
    /\ \E t \in Targets : invoked[t] = <<"ffmpeg", "flac">>

\* the outcome of target t when every probe of PATH finds the tools P
FirstToolIn(P) ==
    IF prefer \in P THEN prefer
    ELSE IF P = {} THEN "none" ELSE CHOOSE x \in P : TRUE

OutcomeUnder(P, t) ==
    IF mode = "flac"
    THEN CASE FirstToolIn(P) = "none" -> NoneOutcome(t)
           [] FirstToolIn(P) # "none" /\ kind[t] = "nospawn" -> ExceptionOutcome(t)
           [] OTHER ->
                LET f == test_with_flac(kind[t])
                    g == test_with_ffmpeg(kind[t])
                IN IF FirstToolIn(P) = "flac" \/ (~g.ok /\ "flac" \in P)
                   THEN FlacOutcome(t, f.ok, "flac", f.msg)
                   ELSE FlacOutcome(t, g.ok, "ffmpeg", g.msg)
    ELSE CASE kind[t] = "dangling" -> stat_failed(t)
           [] kind[t] # "dangling" /\ "ffmpeg" \notin P ->
                scan_one_mp3(t, [ok |-> TRUE,
                    msg |-> "FFmpeg not available; skipped decode check (status=warn)"])
           [] kind[t] = "nospawn" /\ "ffmpeg" \in P ->
                scan_one_mp3(t, [ok |-> FALSE, msg |-> "FFmpeg invocation failed"])
           [] OTHER -> scan_one_mp3(t, ffmpeg_decode_check(kind[t]))

\* C12 (as claimed): availability is a snapshot taken at session start, so
\* every outcome is the one that snapshot gives, whatever PATH becomes later.
C12_SnapshotDecides ==
    \A t \in Targets : job[t] = "done" => result[t] = OutcomeUnder(path0, t)

\* C12 (amended): as long as PATH has not changed, every outcome is the one
\* the session-start PATH gives.  In MP3 mode the ffmpeg path is a snapshot:
\* a readable file is given "warn" exactly when ffmpeg was missing at session
\* start, whatever PATH is when the file is scanned.  In FLAC mode PATH is
\* probed again for every file: an outcome is one that some PATH gives, not
\* necessarily the PATH of the session start.
C12_SnapshotOnlyInMp3 ==
    /\ path = path0 =>
          \A t \in Targets : job[t] = "done" => result[t] = OutcomeUnder(path0, t)
    /\ mode = "mp3" =>
          \A t \in Targets : (job[t] = "done" /\ kind[t] # "dangling") =>
              (result[t].status = "warn" <=> "ffmpeg" \notin path0)
    /\ mode = "flac" =>
          \A t \in Targets : job[t] = "done" =>
              \E P \in SUBSET Tools : result[t] = OutcomeUnder(P, t)

C12_Witness ==
    /\ mode = "mp3" /\ path # path0 /\ "ffmpeg" \in path
    /\ \E t \in Targets : /\ job[t] = "done" /\ result[t].status = "warn"
                           /\ t \in Range(taken)

\* C13: in FLAC mode an outcome attributed to ffmpeg is a pass exactly when
\* the ffmpeg process exited with code 0 and its stripped stderr is empty; a
\* run with code 0 and non-empty stderr is a failure whose message is that
\* stderr; and a job falls back from ffmpeg to flac only after ffmpeg failed.
C13_FfmpegPassNeedsSilence ==
    mode = "flac" =>
       \A t \in Targets :
          LET r == ProcResult("ffmpeg", kind[t]) IN
          /\ (job[t] = "done" /\ result[t].method = "ffmpeg") =>
                /\ result[t].ok <=> (r.code = 0 /\ r.err = "")
                /\ (r.code = 0 /\ r.err # "") =>
                       ~result[t].ok /\ result[t].msg = r.err
          /\ invoked[t] = <<"ffmpeg", "flac">> => ~(r.code = 0 /\ r.err = "")

C13_Witness ==
    /\ mode = "flac"
    /\ \E t \in Targets :
          /\ job[t] = "done" /\ kind[t] = "noisy" /\ invoked[t] = <<"ffmpeg">>
          /\ result[t].method = "ffmpeg" /\ ~result[t].ok
          /\ result[t].msg = "corrected"
          /\ t \in Range(taken)

\* C14 (as claimed): in MP3 mode a file whose ffmpeg run was started has
\* status ok only if ffmpeg exited with code 0 and its stderr is empty.
C14_NonZeroExitNeverOk ==
    mode = "mp3" =>
       \A t \in Targets :
          (job[t] = "done" /\ invoked[t] = <<"ffmpeg">> /\ result[t].status = "ok")
             => LET r == ProcResult("ffmpeg", kind[t]) IN r.code = 0 /\ r.err = ""

\* the rows of the report that are about target t
RowsOf(t) == {i \in DOMAIN reportRows : reportRows[i][1] = t}
AllRows == mode = "mp3" /\ (verbose \/ ~only_errors)
HeaderDue ==
    IF mode = "mp3"
    THEN pc \in {"ctor", "submit", "collect", "h_cancel", "h_shutdown", "h_join",
                 "finally", "report"} \/ (pc = "returned" /\ taken # <<>>)
    ELSE Uninterrupted /\ status = 1

\* C15: the report has its header whenever it is due, and its rows are
\* exactly: one row for every collected outcome that did not pass, and, only
\* when all rows were requested (MP3 mode with --no-only-errors or
\* --verbose), one row for every collected outcome that passed; when an
\* uninterrupted scan returns, every outcome was collected.
C15_ReportRows ==
    /\ HeaderDue => reportOpened
    /\ reportRows # <<>> => reportOpened
    /\ \A i \in DOMAIN reportRows : reportRows[i][1] \in Range(taken)
    /\ (reportOpened /\ (mode = "flac" => pc = "returned")) =>
          \A t \in Range(taken) :
             Cardinality(RowsOf(t)) =
                IF ~result[t].ok \/ AllRows THEN 1 ELSE 0
    /\ (Uninterrupted /\ status \in {0, 1} /\ reportOpened) =>
          Range(taken) = Targets

C15_Witness ==
    /\ Uninterrupted /\ mode = "mp3" /\ ~AllRows /\ total = 2
    /\ Len(reportRows) = 1
    /\ \E t \in Targets : result[t].status = "ok"

\* the failing paths and the exit status a scan of these targets has, as a
\* function of the targets, the tools in PATH and the preference only
ExpectedFailing ==
    {t \in Targets : IF mode = "flac" THEN ~OutcomeUnder(path, t).ok
                                       ELSE OutcomeUnder(path, t).status = "error"}
ExpectedStatus ==
    IF total = 0 THEN 0
    ELSE IF mode = "flac" /\ path = {} THEN 2
    ELSE IF ExpectedFailing # {} THEN 1 ELSE 0
FailingPaths ==
    IF mode = "flac" THEN {errors[i][1] : i \in DOMAIN errors}
    ELSE {t \in Range(taken) : result[t].status = "error"}

\* C20: when an uninterrupted scan returns, its exit status and its set of
\* failing paths are those determined by the targets, the tools in PATH and
\* the preference alone: the same for every worker count and interleaving.
C20_SameVerdictForEverySchedule ==
    Uninterrupted =>
       /\ status = ExpectedStatus
       /\ status \in {0, 1} => FailingPaths = ExpectedFailing

C20_Witness ==
    /\ Uninterrupted /\ mode = "flac" /\ nthreads = 2 /\ total = 2
    /\ taken = <<2, 1>> /\ status = 1
    /\ FailingPaths = {1}

\* C16 (as claimed): when the report destination is not writable, no scan
\* ends with an exception for it, and a report that was opened is at the
\* alternate path (same stem plus a timestamp), in FLAC as in MP3 mode.
C16_FallbackInBothModes ==
    dest # "writable" =>
        /\ pc # "failed"
        /\ reportOpened => reportAt = "rotated"

\* C17 (as claimed): a library run that was interrupted ends the command
\* with exit code 130 and is never announced as a written library.
C17_LibraryInterruptExits130 ==
    /\ (argv = "library" /\ mainPc = "exit" /\ interrupts > 0) => exitCode = 130
    /\ (argv \in {"library", "none"} /\ interrupts > 0) => ~announced

\* C18 (as claimed): with --quiet no progress is written in any mode,
\* neither by a tqdm bar nor by update_progress.
C18_QuietMeansNoProgress ==
    quiet => tqdmUpdates = 0 /\ barWrites = 0

\* C19 (as claimed): a command line with arguments and no mode flag runs
\* library mode and exits with 0 (unless interrupted); with no arguments the
\* menu is shown.
C19_NoFlagRunsLibrary ==
    /\ (argv = "noflag" /\ mainPc = "exit" /\ interrupts = 0) => exitCode = 0
    /\ (argv = "noflag" /\ mainPc # "main") => mainPc \in {"lib_count", "lib_write", "lib_ret", "exit"}
    /\ mainPc = "menu" => argv = "none"

\* the counter of completed files the collector keeps
Completed == IF mode = "flac" THEN checked ELSE oks + warns + errs
Failures == IF mode = "flac" THEN Len(errors) ELSE warns + errs

\* C21: at every point during and after a scan the completed counter equals
\* the number of outcomes the collector has consumed, never exceeds the
\* number of discovered targets, and the number of recorded failures (and of
\* report rows) never exceeds the completed counter.
C21_CompletedCountsOutcomes ==
    /\ Completed = Len(taken)
    /\ Completed <= total
    /\ Failures <= Completed
    /\ Len(reportRows) <= Completed
    /\ mode = "flac" =>
          Len(errors) = Cardinality({i \in DOMAIN taken : ~result[taken[i]].ok})

C21_Witness ==
    /\ pc = "collect" /\ total = 2 /\ mode = "flac"
    /\ checked = 1 /\ Len(errors) = 1 /\ interrupts = 0

Ended == pc \in {"returned", "raised", "failed"}

\* C22: provided every validator process exits, a scan always terminates;
\* a scan that ends without having been interrupted has returned 0 or 1
\* after all its targets were collected (or 0 for no target, 2 for no tool);
\* and once the handler caught an interrupt, the scan returns 130 with every
\* worker thread joined, unless the operator interrupts it again.
C22_ScanTerminates ==
    /\ <>Ended
    /\ [](Ended /\ interrupts = 0 =>
            /\ pc = "returned" /\ status \in {0, 1, 2}
            /\ (status = 2 \/ total = 0) \/ Range(taken) = Targets)
    /\ (caught /\ interrupts = 1) ~>
          \/ pc = "returned" /\ status = 130 /\ Running = {} /\ Queued = {}
          \/ interrupts > 1

C22_Witness ==
    /\ pc = "returned" /\ status = 130 /\ interrupts = 1 /\ caught
    /\ total = 2 /\ \E t \in Targets : job[t] = "cancelled"

FfmpegPasses(k) == ProcResult("ffmpeg", k).code = 0 /\ ProcResult("ffmpeg", k).err = ""
FlacPasses(k) == ProcResult("flac", k).code = 0
PreferredPasses(k) == IF prefer = "ffmpeg" THEN FfmpegPasses(k) ELSE FlacPasses(k)

\* C23 (as claimed): for both preferences a second tool is started for a
\* file only when the first one is unavailable, so with the preferred tool
\* in PATH the verdict and the method are the preferred tool's.
C23_SecondOnlyIfFirstUnavailable ==
    mode = "flac" =>
       \A t \in Targets :
          /\ Len(invoked[t]) <= 1
          /\ (job[t] = "done" /\ prefer \in path /\ kind[t] # "nospawn") =>
                /\ result[t].method = prefer
                /\ result[t].ok <=> PreferredPasses(kind[t])

\* C23 (amended): with prefer = flac the outcome is flac's whenever flac is
\* in PATH.  With prefer = ffmpeg, flac is started as a second tool exactly
\* when ffmpeg reported a failure and flac is in PATH; the verdict and the
\* method are then flac's, so a file ffmpeg rejects is reported ok when flac
\* accepts it.  No other second tool is ever started.
C23_FallbackOnFfmpegFailure ==
    mode = "flac" =>
       \A t \in Targets :
          /\ Len(invoked[t]) = 2 =>
                /\ prefer = "ffmpeg" /\ invoked[t] = <<"ffmpeg", "flac">>
                /\ ~FfmpegPasses(kind[t]) /\ "flac" \in path
          /\ Len(invoked[t]) <= 2
          /\ (job[t] = "done" /\ prefer \in path /\ kind[t] # "nospawn") =>
                IF prefer = "flac" \/ FfmpegPasses(kind[t]) \/ "flac" \notin path
                THEN /\ result[t].method = prefer
                     /\ result[t].ok <=> PreferredPasses(kind[t])
                     /\ invoked[t] = <<prefer>>
                ELSE /\ result[t].method = "flac"
                     /\ result[t].ok <=> FlacPasses(kind[t])
                     /\ invoked[t] = <<"ffmpeg", "flac">>

C23_Witness ==
    /\ mode = "flac" /\ prefer = "ffmpeg"
    /\ \E t \in Targets :
          /\ kind[t] = "noisy" /\ job[t] = "done"
          /\ invoked[t] = <<"ffmpeg", "flac">>
          /\ result[t].ok /\ result[t].method = "flac"

\* C24: an outcome attributed to flac is ok exactly when the flac process
\* exited with code 0, whatever it wrote to stdout or stderr, whereas an
\* outcome attributed to ffmpeg is ok only if stderr was empty as well.
C24_FlacTrustsExitCode ==
    mode = "flac" =>
       \A t \in Targets :
          /\ (job[t] = "done" /\ result[t].method = "flac") =>
                (result[t].ok <=> ProcResult("flac", kind[t]).code = 0)
          /\ (job[t] = "done" /\ result[t].method = "ffmpeg" /\ result[t].ok) =>
                ProcResult("ffmpeg", kind[t]).err = ""

C24_Witness ==
    /\ mode = "flac" /\ prefer = "flac" /\ total = 2 /\ path = {"flac"}
    /\ \E t \in Targets :
          /\ job[t] = "done" /\ result[t].method = "flac" /\ result[t].ok
          /\ ProcResult("flac", kind[t]).err # ""
          /\ ProcResult("flac", kind[t]).out # ""
    /\ \E t \in Targets :
          /\ job[t] = "done" /\ result[t].method = "flac" /\ ~result[t].ok

\* C25: in FLAC mode, with a writable destination, the report is written
\* exactly when the scan returns 1, which it does exactly when it ran to
\* completion uninterrupted and some outcome is not ok; the rows are the
\* collected failures.  A scan that returns 0, 2 or 130, or that ends with
\* KeyboardInterrupt, writes nothing, whatever failures it had collected.
C25_FlacReportOnlyOnStatus1 ==
    mode = "flac" =>
       /\ reportOpened <=> (pc = "returned" /\ status = 1)
       /\ reportOpened =>
             /\ interrupts = 0 /\ Range(taken) = Targets
             /\ reportRows = errors /\ errors # <<>>
       /\ ~reportOpened => reportRows = <<>>
       /\ (Uninterrupted /\ \E t \in Targets : job[t] = "done" /\ ~result[t].ok)
             => reportOpened

C25_Witness ==
    /\ mode = "flac" /\ pc = "returned" /\ status = 130
    /\ errors # <<>> /\ ~reportOpened /\ reportRows = <<>>

\* a step in which no worker thread does anything
WorkersStill ==
    /\ job' = job /\ proc' = proc /\ result' = result
    /\ invoked' = invoked /\ spawned' = spawned

\* C26: the counters and the failure collection change only in a step of
\* the collecting thread that takes the result of one finished job, and the
\* report only in a step of that thread (header, row, final write); no step
\* in which a worker starts, runs or finishes a job changes any of them.
C26_OnlyTheCollectorWrites ==
    [][/\ (counters' # counters \/ taken' # taken) =>
             /\ pc = "collect" /\ WorkersStill
             /\ \E t \in Targets : job[t] = "done" /\ taken' = Append(taken, t)
       /\ report' # report =>
             /\ pc \in {"header", "collect", "report"} /\ WorkersStill
       /\ ~WorkersStill => UNCHANGED <<counters, taken, report>>]_vars

C26_Witness ==
    /\ pc = "collect" /\ Len(taken) = 1 /\ interrupts = 0
    /\ \E t \in Targets : job[t] = "running"
    /\ Completed = 1

\* C27: a FLAC job that starts while neither tool is in PATH ends at once
\* with method "none"; an outcome with method "none" is not ok, has a
\* message, and no process was started for its file; once collected it is
\* among the failures, and the scan goes on to return 1.  While PATH is as it
\* was at the session-level tool check, no outcome has method "none".
C27_NoToolForAFile ==
    /\ [](mode = "flac" =>
            \A t \in Targets :
               /\ (job[t] = "done" /\ result[t].method = "none") =>
                     /\ ~result[t].ok /\ result[t].msg # ""
                     /\ invoked[t] = <<>> /\ SpawnedFor(t) = {}
                     /\ path0 # {}
                     /\ t \in Range(taken) =>
                           \E i \in DOMAIN errors : errors[i] = <<t, "none", result[t].msg>>
               /\ (job[t] = "done" /\ path = path0) => result[t].method # "none")
    /\ [](mode = "flac" /\ Uninterrupted /\ (\E t \in Targets : result[t].method = "none")
            => status = 1 /\ Range(taken) = Targets)
    /\ [][\A t \in Targets :
            (mode = "flac" /\ job[t] = "queued" /\ job'[t] \in {"running", "done"}
               /\ path = {})
              => job'[t] = "done" /\ result'[t].method = "none"]_vars

C27_Witness ==
    /\ mode = "flac" /\ Uninterrupted /\ status = 1 /\ total = 2
    /\ result[2].method = "none" /\ result[1].ok
    /\ Len(errors) = 1

\* C28: in FLAC mode an outcome that is ok carries an empty message and an
\* outcome that is not ok (a tool's failure, method "none", method
\* "exception") carries a non-empty one, so every collected failure and
\* every report row has a non-empty error field.
C28_MessageIffFailure ==
    mode = "flac" =>
       /\ \A t \in Targets : job[t] = "done" =>
             /\ result[t].method \in {"flac", "ffmpeg", "none", "exception"}
             /\ result[t].ok <=> result[t].msg = ""
             /\ result[t].ok => result[t].method \in Tools
       /\ \A i \in DOMAIN errors : errors[i][3] # ""
       /\ \A i \in DOMAIN reportRows : reportRows[i][3] # ""

C28_Witness ==
    /\ mode = "flac" /\ reportOpened /\ Len(reportRows) = 2
    /\ \E i \in DOMAIN reportRows : reportRows[i][2] = "exception"
    /\ \E i \in DOMAIN reportRows :
          /\ reportRows[i][2] = "flac"
          /\ reportRows[i][3] = "flac exited with code"

WithStatus(st) == {t \in Targets : result[t].status = st}

\* C29: when an uninterrupted MP3 scan returns, it returns 1 exactly when
\* some outcome has status error (a scan without ffmpeg over readable files
\* gives only warn outcomes and returns 0); oks, warns and errs count the
\* outcomes of each status and sum to the number of targets; and the number
\* of rows written is warns + errs when only-errors is in force and the
\* number of targets otherwise.
C29_Mp3ExitAndCounts ==
    (mode = "mp3" /\ Uninterrupted) =>
       /\ status = IF WithStatus("error") # {} THEN 1 ELSE 0
       /\ oks = Cardinality(WithStatus("ok"))
       /\ warns = Cardinality(WithStatus("warn"))
       /\ errs = Cardinality(WithStatus("error"))
       /\ oks + warns + errs = total
       /\ written = IF AllRows THEN total ELSE warns + errs
       /\ Len(reportRows) = written
       /\ ("ffmpeg" \notin path /\ \A t \in Targets : kind[t] # "dangling")
             => status = 0 /\ warns = total

C29_Witness ==
    /\ mode = "mp3" /\ Uninterrupted /\ total = 2
    /\ "ffmpeg" \notin path /\ warns = 1 /\ errs = 1 /\ status = 1
    /\ ~AllRows /\ written = 2

BothEnded == pc \in {"returned", "failed"} /\ tpc \in {"returned", "failed"}

\* C30: when getMusic.py's run_flac_mode and testFLAC.py's main have both
\* run, uninterrupted, on the same targets with the same PATH, preference,
\* worker count and validator verdicts, they ended the same way, returned
\* the same exit status, and either both wrote no report or both wrote the
\* same set of rows (path, method, error).
C30_TwinsAgree ==
    BothEnded =>
       /\ (pc = "failed") <=> (tpc = "failed")
       /\ status = tstatus
       /\ reportOpened <=> topened
       /\ Range(reportRows) = Range(trows)
       /\ Len(reportRows) = Len(trows)

C30_Witness ==
    /\ BothEnded /\ total = 2 /\ prefer = "ffmpeg" /\ path = Tools
    /\ status = 1 /\ tstatus = 1 /\ topened /\ reportOpened
    /\ Len(trows) = 2 /\ reportRows # trows
    /\ \E i \in DOMAIN trows : trows[i][2] = "flac"
    /\ \E i \in DOMAIN trows : trows[i][2] = "exception"

====
